---- MODULE Spec2Model ----
(***************************************************************************)
(* Model of mpoints/plot_tools.py: qq_plot, correlogram,                   *)
(* transition_probabilities, discrete_distribution, kernels_exp and        *)
(* sample_path.  One call is one behaviour: Init draws the function and    *)
(* its arguments, the entry action runs the code before the subplot loops, *)
(* one action runs the body of one subplot cell, and Return runs the code  *)
(* after the loops; sample_path has no loop that can fail and is one       *)
(* action.  Indices are 0-based as in the Python code; sequences are       *)
(* 1-based, so residuals[n] is written Res(m, n).                          *)
(*                                                                         *)
(* Floating point values that decide nothing in the code (quantile values, *)
(* correlation values, kernel values) are kept as their shape: the length  *)
(* of the array and whether it holds NaN.  Times are fixed point numbers   *)
(* in units of 1/Scale.                                                    *)
(***************************************************************************)
EXTENDS Integers, Sequences, FiniteSets, TLC

VARIABLES
    fn,                 \* the function called
    pc,                 \* "entry", "loop", "return" (returned) or "raised"
    err,                \* "none" or the name of the exception raised
    nested,             \* type(residuals[0][0]) is a list: several models
    residuals,          \* sequence of models, each a sequence of sequences
    shape,              \* qq_plot's shape argument
    n_lags,             \* correlogram's n_lags argument
    decay_coefficients, \* kernels_exp: [<<e1, x, e2>> -> Int]
    tmin, tmax,         \* kernels_exp: <<>> for None, <<t>> for a value
    percentile_empty,   \* what np.percentile does on an empty array
    probabilities,      \* heatmaps: [index -> p], p in units of 1/PUnit
    usetex,             \* heatmaps: the usetex argument
    events_labels,      \* transition_probabilities: <<>> for None, or labels
    path_args,          \* sample_path: <<>> or the record of its arguments
    n_models, dim,      \* locals of qq_plot and correlogram
    v_size, h_size,     \* rows and columns of the loops
    i, j,               \* loop indices
    fig_array,          \* <<>> or <<[nrows, ncols]>>, from plt.subplots
    allocated,          \* names of the arrays allocated so far
    tt,                 \* kernels_exp: <<>> or <<[order_min, order_max,
                        \* t_min, t_max]>>
    ccf_calls,          \* the argument pairs handed to stattools.ccf
    curves,             \* the curves handed to axes.plot, in order
    annot,              \* heatmaps: [index -> text], the annotations made
    path_plot           \* sample_path: <<>> or <<the scatter and step data>>

vars == <<fn, pc, err, nested, residuals, shape, n_lags, decay_coefficients,
          tmin, tmax, percentile_empty, n_models, dim, v_size, h_size, i, j,
          fig_array, allocated, tt, ccf_calls, curves, probabilities, usetex,
          annot, events_labels, path_args, path_plot>>

input == <<fn, nested, residuals, shape, n_lags, decay_coefficients, tmin,
           tmax, percentile_empty, probabilities, usetex, events_labels,
           path_args>>

---------------------------------------------------------------------------
(* Bounds of the model. *)

MaxModels == 2
MaxDim == 3
MaxLen == 2
MaxShape == 2
MaxLag == 2
MaxDecay == 2
MaxOrder == 1
MaxStates == 2

Scale == 10 ^ 6

(* Probabilities are multiples of 1/PUnit: a power of two, so that p and  *)
(* 100 * p are exact in floating point.                                   *)
PUnit == 2 ^ 10

(* -ln(0.1) and -ln(0.9) in units of 1/Scale. *)
LnTen == 2302585
LnTenNinths == 105361

Min(a, b) == IF a < b THEN a ELSE b
Max(a, b) == IF a < b THEN b ELSE a

---------------------------------------------------------------------------
(* Inputs. *)

Sample(m, e, k) == 100 * (m + 1) + 10 * (e + 1) + k

(* Model 0 has d0 event types and every other model d1; the sequence of   *)
(* event type e has lens[e] samples in every model that has it, and every *)
(* sample differs from every other, so that a slice shows which samples   *)
(* it holds.                                                              *)
MkResiduals(nm, d0, d1, lens) ==
    [m \in 1..nm |-> [e \in 1..(IF m = 1 THEN d0 ELSE d1) |->
        [k \in 1..lens[e] |-> Sample(m - 1, e - 1, k)]]]

ResidualInputs(nst) ==
    { MkResiduals(nm, d0, d1, lens) :
        nm \in (IF nst THEN 2..MaxModels ELSE {1}),
        d0 \in 1..MaxDim, d1 \in 1..MaxDim,
        lens \in [1..MaxDim -> 0..MaxLen] }

Triples(ne, ns) == (0..(ne - 1)) \X (0..(ns - 1)) \X (0..(ne - 1))

DecayInputs(ne, ns) ==
    { [t \in Triples(ne, ns) |-> IF t = odd THEN b2 ELSE b1] :
        odd \in Triples(ne, ns), b1 \in (-1)..MaxDecay, b2 \in (-1)..MaxDecay }

(* The probability of the entry of rank r: the entries of one array are   *)
(* a third of the range apart, and array after array every multiple of    *)
(* 1/PUnit in [0, 1] is met.                                              *)
ProbAt(seed, r) == (seed + r * (PUnit \div 3)) % (PUnit + 1)

TransitionInputs(ns, ne) ==
    { [t \in (0..(ns - 1)) \X (0..(ne - 1)) \X (0..(ns - 1)) |->
          ProbAt(seed, t[1] + ns * (t[2] + ne * t[3]))] : seed \in 0..PUnit }

DistributionInputs(nv, nh) ==
    { [t \in (0..(nv - 1)) \X (0..(nh - 1)) |->
          ProbAt(seed, t[1] + nv * t[2])] : seed \in 0..PUnit }

TimeInputs == {<<>>} \cup { <<Scale * (10 ^ k)>> : k \in 0..MaxOrder }

---------------------------------------------------------------------------
(* Python and numpy helpers. *)

(* The number of entries of s[0:stop] for a sequence of length len. *)
PySliceStop(len, stop) ==
    IF stop < 0 THEN Max(len + stop, 0) ELSE Min(stop, len)

(* s[0:stop] *)
PyPrefix(s, stop) == SubSeq(s, 1, PySliceStop(Len(s), stop))

SetMin(S) == CHOOSE x \in S : \A y \in S : x <= y
SetMax(S) == CHOOSE x \in S : \A y \in S : y <= x

(* Floats that the code computes with: a number in units of 1/Scale (or a *)
(* plain integer, for an order of magnitude), an infinity or NaN.          *)
Num(v) == [k |-> "num", v |-> v]
PosInf == [k |-> "inf", v |-> 0]
NegInf == [k |-> "-inf", v |-> 0]
NaN == [k |-> "nan", v |-> 0]

(* c / b for a positive constant c and a numpy number b: a zero divisor    *)
(* gives inf and a warning, no exception.                                  *)
FDiv(c, b) ==
    IF b > 0 THEN Num(c \div b)
    ELSE IF b = 0 THEN PosInf
    ELSE Num(-(c \div (-b)))

RECURSIVE FloorLog10(_)
FloorLog10(n) == IF n < 10 THEN 0 ELSE 1 + FloorLog10(n \div 10)

RECURSIVE CeilLog10(_)
CeilLog10(n) == IF n <= 1 THEN 0 ELSE 1 + CeilLog10((n + 9) \div 10)

(* np.floor(np.log10(t)) and np.ceil(np.log10(t)) *)
OrderFloor(t) ==
    IF t.k # "num" THEN (IF t.k = "inf" THEN PosInf ELSE NaN)
    ELSE IF t.v < 0 THEN NaN
    ELSE IF t.v = 0 THEN NegInf
    ELSE Num(FloorLog10(t.v) - FloorLog10(Scale))

OrderCeil(t) ==
    IF t.k # "num" THEN (IF t.k = "inf" THEN PosInf ELSE NaN)
    ELSE IF t.v < 0 THEN NaN
    ELSE IF t.v = 0 THEN NegInf
    ELSE Num(CeilLog10(t.v) - FloorLog10(Scale))

---------------------------------------------------------------------------
(* qq_plot and correlogram: the number of models and of event types. *)

(* residuals[0][0] of a single model whose first sequence is empty: it is *)
(* read after n_models = 1 and dim = len(residuals) have been assigned.   *)
DetectErr ==
    IF ~nested /\ Len(residuals[1][1]) = 0 THEN "IndexError" ELSE "none"

DetectModels == IF nested THEN Len(residuals) ELSE 1

DetectDim == Len(residuals[1])

(* residuals[n] of a single model, residuals[m][n] of several *)
HasRes(m, n) == n < Len(residuals[m + 1])
Res(m, n) == residuals[m + 1][n + 1]

(* the next indices of  for i in range(v_size): for j in range(h_size) *)
NextI == IF j + 1 < h_size THEN i ELSE i + 1
NextJ == IF j + 1 < h_size THEN j + 1 ELSE 0

(* The outcome of a loop over models: the curves plotted, the calls made   *)
(* and the exception that ended it.                                        *)
Outcome(cs, calls, e) == [curves |-> cs, calls |-> calls, err |-> e]

---------------------------------------------------------------------------
(* qq_plot *)

(* the cell index taken with the number of rows for the row length *)
CellIndex_RowCount(ci, cj) == cj + v_size * ci

CellIndex(ci, cj) == cj + h_size * ci

(* The empirical quantile curve of residuals[m][n]. *)
QQCurve(m, n) ==
    IF ~HasRes(m, n) THEN Outcome(<<>>, <<>>, "IndexError")
    ELSE IF Len(Res(m, n)) = 0
    THEN IF percentile_empty = "nan"
         THEN Outcome(<<[i |-> i, j |-> j, n |-> n, m |-> m, nan |-> TRUE]>>,
                      <<>>, "none")
         ELSE Outcome(<<>>, <<>>, "IndexError")
    ELSE Outcome(<<[i |-> i, j |-> j, n |-> n, m |-> m, nan |-> FALSE]>>,
                 <<>>, "none")

RECURSIVE QQModels(_, _, _)
QQModels(m, n, acc) ==
    IF m >= n_models \/ acc.err # "none" THEN acc
    ELSE LET c == QQCurve(m, n)
         IN QQModels(m + 1, n, Outcome(acc.curves \o c.curves, <<>>, c.err))

QQCellBody ==
    LET n == CellIndex(i, j)
    IN IF n < dim
       THEN IF n_models = 1 THEN QQCurve(0, n)
            ELSE QQModels(0, n, Outcome(<<>>, <<>>, "none"))
       ELSE Outcome(<<>>, <<>>, "none")

QQEntry ==
    /\ fn = "qq_plot" /\ pc = "entry"
    /\ allocated' = {"quantile_levels", "quantiles_theoretical"}
    /\ n_models' = DetectModels
    /\ dim' = DetectDim
    /\ IF DetectErr # "none"
       THEN /\ pc' = "raised" /\ err' = DetectErr
            /\ UNCHANGED <<v_size, h_size, fig_array>>
       ELSE /\ IF shape = <<>>
               THEN /\ pc' = "raised" /\ err' = "TypeError"
                    /\ UNCHANGED <<v_size, h_size, fig_array>>
               ELSE /\ pc' = "loop" /\ err' = "none"
                    /\ v_size' = shape[1]
                    /\ h_size' = shape[2]
                    /\ fig_array' =
                          <<[nrows |-> shape[1], ncols |-> shape[2]]>>
    /\ UNCHANGED <<input, path_plot, annot, i, j, tt, ccf_calls, curves>>

QQCell ==
    /\ fn = "qq_plot" /\ pc = "loop" /\ i < v_size
    /\ LET out == QQCellBody
       IN /\ curves' = curves \o out.curves
          /\ IF out.err # "none"
             THEN /\ pc' = "raised" /\ err' = out.err /\ UNCHANGED <<i, j>>
             ELSE /\ i' = NextI /\ j' = NextJ /\ UNCHANGED <<pc, err>>
    /\ allocated' = IF CellIndex(i, j) < dim
                    THEN allocated \cup {"quantiles_empirical"}
                    ELSE allocated
    /\ UNCHANGED <<input, path_plot, annot, n_models, dim, v_size, h_size,
                   fig_array, tt, ccf_calls>>

---------------------------------------------------------------------------
(* correlogram *)

(* the longer of the two lengths *)
MaxLength_Longer(a, b) == Max(Len(a), Len(b))

MaxLength(a, b) == Min(Len(a), Len(b))

(* stattools.ccf(x, y, unbiased=True): one value per lag 0..len(x)-1; the  *)
(* correlation of empty arrays raises ValueError.                          *)
CcfLen(x, y) == Len(x)

(* The number of entries of ccf[0:n_lags + 1]. *)
PlottedLen(ccf_len) == PySliceStop(ccf_len, n_lags + 1)

CorrCurve(m, ci, cj) ==
    IF ~HasRes(m, ci) \/ ~HasRes(m, cj) THEN Outcome(<<>>, <<>>, "IndexError")
    ELSE LET a == Res(m, ci)
             b == Res(m, cj)
             max_length == MaxLength(a, b)
             x == PyPrefix(a, max_length)
             y == PyPrefix(b, max_length)
             call == <<[i |-> ci, j |-> cj, m |-> m, x |-> x, y |-> y]>>
         IN IF Len(x) = 0 \/ Len(y) = 0
            THEN Outcome(<<>>, call, "ValueError")
            ELSE Outcome(<<[i |-> ci, j |-> cj, m |-> m,
                            len |-> PlottedLen(CcfLen(x, y))]>>, call, "none")

RECURSIVE CorrModels(_, _)
CorrModels(m, acc) ==
    IF m >= n_models \/ acc.err # "none" THEN acc
    ELSE LET c == CorrCurve(m, i, j)
         IN CorrModels(m + 1, Outcome(acc.curves \o c.curves,
                                      acc.calls \o c.calls, c.err))

CorrCellBody ==
    IF n_models = 1 THEN CorrCurve(0, i, j)
    ELSE CorrModels(0, Outcome(<<>>, <<>>, "none"))

CorrEntry ==
    /\ fn = "correlogram" /\ pc = "entry"
    /\ n_models' = DetectModels
    /\ dim' = DetectDim
    /\ IF DetectErr # "none"
       THEN /\ pc' = "raised" /\ err' = DetectErr
            /\ UNCHANGED <<v_size, h_size, fig_array>>
       ELSE /\ pc' = "loop" /\ err' = "none"
            /\ v_size' = DetectDim
            /\ h_size' = DetectDim
            /\ fig_array' = <<[nrows |-> DetectDim, ncols |-> DetectDim]>>
    /\ UNCHANGED <<input, path_plot, annot, i, j, allocated, tt, ccf_calls,
                   curves>>

CorrCell ==
    /\ fn = "correlogram" /\ pc = "loop" /\ i < v_size
    /\ LET out == CorrCellBody
       IN /\ curves' = curves \o out.curves
          /\ ccf_calls' = ccf_calls \o out.calls
          /\ IF out.err # "none"
             THEN /\ pc' = "raised" /\ err' = out.err /\ UNCHANGED <<i, j>>
             ELSE /\ i' = NextI /\ j' = NextJ /\ UNCHANGED <<pc, err>>
    /\ UNCHANGED <<input, path_plot, annot, n_models, dim, v_size, h_size,
                   fig_array, allocated, tt>>

---------------------------------------------------------------------------
(* kernels_exp *)

NumEventTypes == Cardinality({t[1] : t \in DOMAIN decay_coefficients})
NumStates == Cardinality({t[2] : t \in DOMAIN decay_coefficients})

DecayValues == {decay_coefficients[t] : t \in DOMAIN decay_coefficients}
BetaMin == SetMin(DecayValues)
BetaMax == SetMax(DecayValues)

TMax == IF tmax = <<>> THEN FDiv(LnTen, BetaMin) ELSE Num(tmax[1])
TMin == IF tmin = <<>> THEN FDiv(LnTenNinths, BetaMax) ELSE Num(tmin[1])

(* np.logspace(order_min, order_max, num=npoints) *)
TimeGrid ==
    [order_min |-> OrderFloor(TMin), order_max |-> OrderCeil(TMax),
     t_min |-> TMin, t_max |-> TMax]

(* yy = a / b * (1 - np.exp(-b * tt)) for every state x of the cell *)
RECURSIVE KernStates(_, _)
KernStates(x, acc) ==
    IF x >= NumStates THEN acc
    ELSE KernStates(x + 1,
            acc \o <<[e1 |-> i, x |-> x, e2 |-> j,
                      b |-> decay_coefficients[<<i, x, j>>]]>>)

(* impact_coefficients[t]: every entry of the inputs is 1.0 *)
ImpactAt(t) == 1

(* np.max(np.divide(impact_coefficients, decay_coefficients)) * 1.05 *)
NormMax ==
    IF 0 \in DecayValues THEN PosInf
    ELSE Num((SetMax({ FDiv(Scale * ImpactAt(t), decay_coefficients[t]).v :
                         t \in DOMAIN decay_coefficients }) * 105) \div 100)

(* axes.set_ylim(ymin=0, ymax=norm_max) and axes.set_xlim(xmin=t_min,      *)
(* xmax=t_max): matplotlib refuses a limit that is NaN or infinite.        *)
LimitsErr ==
    IF NormMax.k # "num" THEN "ValueError"
    ELSE IF TMin.k # "num" \/ TMax.k # "num" THEN "ValueError"
    ELSE "none"

KernEntry ==
    /\ fn = "kernels_exp" /\ pc = "entry"
    /\ tt' = <<TimeGrid>>
    /\ allocated' = {"tt"}
    /\ v_size' = NumEventTypes
    /\ h_size' = NumEventTypes
    /\ fig_array' = <<[nrows |-> NumEventTypes, ncols |-> NumEventTypes]>>
    /\ pc' = "loop"
    /\ UNCHANGED <<input, path_plot, annot, err, n_models, dim, i, j,
                   ccf_calls, curves>>

KernCell ==
    /\ fn = "kernels_exp" /\ pc = "loop" /\ i < v_size
    /\ curves' = curves \o KernStates(0, <<>>)
    /\ IF LimitsErr # "none"
       THEN /\ pc' = "raised" /\ err' = LimitsErr /\ UNCHANGED <<i, j>>
       ELSE /\ i' = NextI /\ j' = NextJ /\ UNCHANGED <<pc, err>>
    /\ UNCHANGED <<input, path_plot, annot, n_models, dim, v_size, h_size,
                   fig_array, allocated, tt, ccf_calls>>

---------------------------------------------------------------------------
(* transition_probabilities *)

NumberOfStates == Cardinality({t[1] : t \in DOMAIN probabilities})
NumberOfEventTypes == Cardinality({t[2] : t \in DOMAIN probabilities})

(* the integer printed after rounding 100 * p to the nearest integer *)
TransitionAnnotation_Rounded(p, tex) ==
    IF p = 0 THEN (IF tex THEN "$0$\\%" ELSE "0%")
    ELSE IF 100 * p < PUnit THEN (IF tex THEN "$<1$\\%" ELSE "<1%")
    ELSE LET a == ToString((100 * p + PUnit \div 2) \div PUnit)
         IN IF tex THEN "$" \o a \o "$\\%" ELSE a \o "%"

(* annot[x1, x2] for p = probabilities[x1, n, x2] *)
TransitionAnnotation(p, tex) ==
    IF p = 0 THEN (IF tex THEN "$0$\\%" ELSE "0%")
    ELSE IF 100 * p < PUnit THEN (IF tex THEN "$<1$\\%" ELSE "<1%")
    ELSE LET a == ToString((100 * p) \div PUnit)
         IN IF tex THEN "$" \o a \o "$\\%" ELSE a \o "%"

TransitionCellIndex(ci, cj) == ci * h_size + cj

(* the annotation matrix of event type n *)
TransitionAnnot(n) ==
    [t \in {u \in DOMAIN probabilities : u[2] = n} |->
        TransitionAnnotation(probabilities[t], usetex)]

TPEntry ==
    /\ fn = "transition_probabilities" /\ pc = "entry"
    /\ IF shape = <<>>
       THEN /\ v_size' = 1 /\ h_size' = NumberOfEventTypes
            /\ fig_array' = <<[nrows |-> 1, ncols |-> NumberOfEventTypes]>>
       ELSE /\ v_size' = shape[1] /\ h_size' = shape[2]
            /\ fig_array' = <<[nrows |-> shape[1], ncols |-> shape[2]]>>
    /\ pc' = "loop"
    /\ UNCHANGED <<input, path_plot, annot, err, n_models, dim, i, j,
                   allocated, tt, ccf_calls, curves>>

(* One cell: the annotation matrix is built and drawn, then the title    *)
(* reads events_labels[n], which fails when events_labels is None.        *)
TPCell ==
    /\ fn = "transition_probabilities" /\ pc = "loop" /\ i < v_size
    /\ LET n == TransitionCellIndex(i, j)
       IN IF n < NumberOfEventTypes
          THEN /\ annot' = annot @@ TransitionAnnot(n)
               /\ allocated' = allocated \cup {"annot"}
               /\ IF events_labels = <<>>
                  THEN /\ pc' = "raised" /\ err' = "TypeError"
                       /\ UNCHANGED <<i, j>>
                  ELSE /\ i' = NextI /\ j' = NextJ /\ UNCHANGED <<pc, err>>
          ELSE /\ i' = NextI /\ j' = NextJ
               /\ UNCHANGED <<annot, allocated, pc, err>>
    /\ UNCHANGED <<input, path_plot, n_models, dim, v_size, h_size,
                   fig_array, tt, ccf_calls, curves>>

---------------------------------------------------------------------------
(* discrete_distribution *)

(* annot[x1, x2] for p = probabilities[x1, x2] *)
DistributionAnnotation(p, tex) ==
    IF p = 0 THEN (IF tex THEN "$0$\\%" ELSE "0%")
    ELSE IF 100 * p < PUnit THEN (IF tex THEN "$<1$\\%" ELSE "<1%")
    ELSE LET a == ToString((100 * p) \div PUnit)
         IN IF tex THEN "$" \o a \o "$\\%" ELSE a \o "%"

(* the row x1 of the annotation matrix *)
DistributionAnnot(x1) ==
    [t \in {u \in DOMAIN probabilities : u[1] = x1} |->
        DistributionAnnotation(probabilities[t], usetex)]

DDEntry ==
    /\ fn = "discrete_distribution" /\ pc = "entry"
    /\ v_size' = Cardinality({t[1] : t \in DOMAIN probabilities})
    /\ h_size' = Cardinality({t[2] : t \in DOMAIN probabilities})
    /\ allocated' = {"annot"}
    /\ pc' = "loop"
    /\ UNCHANGED <<input, path_plot, annot, err, n_models, dim, i, j,
                   fig_array, tt, ccf_calls, curves>>

DDRow ==
    /\ fn = "discrete_distribution" /\ pc = "loop" /\ i < v_size
    /\ annot' = annot @@ DistributionAnnot(i)
    /\ i' = i + 1
    /\ UNCHANGED <<input, path_plot, pc, err, n_models, dim, v_size, h_size,
                   j, fig_array, allocated, tt, ccf_calls, curves>>

---------------------------------------------------------------------------
(* sample_path *)

(* bisect.bisect_left(a, x): the number of entries of the sorted a below x *)
BisectLeft(a, x) == Cardinality({ k \in 1..Len(a) : a[k] < x })

(* bisect.bisect_right(a, x): the number of entries of a not above x *)
BisectRight(a, x) == Cardinality({ k \in 1..Len(a) : a[k] <= x })

(* a[lo:hi] for 0 <= lo, hi <= len(a) *)
PySlice(a, lo, hi) == SubSeq(a, lo + 1, hi)

(* The sorted event times, with the event type and the state of each: the  *)
(* event at position k has type k mod ne and leads to state k mod 2.       *)
SortedTimes ==
    { t \in UNION { [1..l -> 1..(MaxLen + 1)] : l \in 0..MaxLen } :
        \A k \in 1..(Len(t) - 1) : t[k] <= t[k + 1] }

PathInputs ==
    { [times |-> t,
       events |-> [k \in 1..Len(t) |-> k % ne],
       states |-> [k \in 1..Len(t) |-> k % 2],
       time_start |-> a, time_end |-> b, number_of_event_types |-> ne] :
        t \in SortedTimes, a \in 0..(MaxLen + 2), b \in 0..(MaxLen + 2),
        ne \in 1..MaxShape }

(* the scatter of the events in the period and the step plot of the state *)
PathPlot(a) ==
    LET index_start == BisectLeft(a.times, a.time_start)
        index_end == BisectRight(a.times, a.time_end)
        initial_state ==
            IF index_start > 0 THEN a.states[index_start] ELSE 0
        times == PySlice(a.times, index_start, index_end)
        events == PySlice(a.events, index_start, index_end)
        states == PySlice(a.states, index_start, index_end)
        stepped == <<initial_state>> \o states
    IN [index_start |-> index_start, index_end |-> index_end,
        scatter_times |-> times, scatter_states |-> states,
        scatter_events |-> events,
        step_times |-> (<<a.time_start>> \o times) \o <<a.time_end>>,
        step_states |-> stepped \o <<stepped[Len(stepped)]>>]

(* The whole function: it has no loop that can fail part way. *)
SamplePath ==
    /\ fn = "sample_path" /\ pc = "entry"
    /\ LET a == path_args[1]
       IN /\ allocated' = {"compute_times"}
          /\ fig_array' = <<[nrows |-> 2, ncols |-> 1]>>
          /\ curves' = [k \in 1..a.number_of_event_types |->
                          [kind |-> "intensity", n |-> k - 1]]
          /\ path_plot' = <<PathPlot(a)>>
    /\ pc' = "return"
    /\ UNCHANGED <<input, annot, err, n_models, dim, v_size, h_size, i, j,
                   tt, ccf_calls>>

---------------------------------------------------------------------------
(* The code after the loops: layout, axis texts, savefig, return. *)
Return ==
    /\ pc = "loop" /\ i >= v_size
    /\ pc' = "return"
    /\ UNCHANGED <<input, path_plot, annot, err, n_models, dim, v_size,
                   h_size, i, j, fig_array, allocated, tt, ccf_calls,
                   curves>>

---------------------------------------------------------------------------
InitLocals ==
    /\ pc = "entry" /\ err = "none"
    /\ n_models = 0 /\ dim = 0 /\ v_size = 0 /\ h_size = 0
    /\ i = 0 /\ j = 0
    /\ fig_array = <<>> /\ allocated = {} /\ tt = <<>>
    /\ ccf_calls = <<>> /\ curves = <<>> /\ annot = <<>>
    /\ path_plot = <<>>

InitQQ ==
    /\ fn = "qq_plot"
    /\ nested \in BOOLEAN
    /\ residuals \in ResidualInputs(nested)
    /\ shape \in {<<>>} \cup ((1..MaxShape) \X (1..MaxShape))
    /\ percentile_empty \in {"nan", "IndexError"}
    /\ n_lags = 0 /\ decay_coefficients = <<>> /\ tmin = <<>> /\ tmax = <<>>
    /\ probabilities = <<>> /\ usetex = FALSE
    /\ events_labels = <<>> /\ path_args = <<>>

InitCorr ==
    /\ fn = "correlogram"
    /\ nested \in BOOLEAN
    /\ residuals \in ResidualInputs(nested)
    /\ n_lags \in (-2)..MaxLag
    /\ shape = <<>> /\ percentile_empty = "nan"
    /\ decay_coefficients = <<>> /\ tmin = <<>> /\ tmax = <<>>
    /\ probabilities = <<>> /\ usetex = FALSE
    /\ events_labels = <<>> /\ path_args = <<>>

InitKern ==
    /\ fn = "kernels_exp"
    /\ \E ne \in 1..MaxShape, ns \in 1..MaxModels :
          decay_coefficients \in DecayInputs(ne, ns)
    /\ tmin \in TimeInputs
    /\ tmax \in TimeInputs
    /\ nested = FALSE /\ residuals = <<>> /\ shape = <<>> /\ n_lags = 0
    /\ percentile_empty = "nan"
    /\ probabilities = <<>> /\ usetex = FALSE
    /\ events_labels = <<>> /\ path_args = <<>>

InitHeat ==
    /\ nested = FALSE /\ residuals = <<>> /\ n_lags = 0
    /\ percentile_empty = "nan"
    /\ decay_coefficients = <<>> /\ tmin = <<>> /\ tmax = <<>>
    /\ usetex \in BOOLEAN
    /\ path_args = <<>>

(* events_labels is None or has one label for each event type *)
LabelInputs(ne) == {<<>>, [n \in 1..ne |-> ToString(n - 1)]}

InitTP ==
    /\ fn = "transition_probabilities"
    /\ \E ns \in 1..MaxStates, ne \in 1..MaxShape :
          /\ probabilities \in TransitionInputs(ns, ne)
          /\ events_labels \in LabelInputs(ne)
    /\ shape \in {<<>>} \cup { <<v, v>> : v \in 1..MaxShape }
    /\ InitHeat

InitDD ==
    /\ fn = "discrete_distribution"
    /\ \E nv \in 1..MaxStates, nh \in 1..MaxShape :
          probabilities \in DistributionInputs(nv, nh)
    /\ shape = <<>> /\ events_labels = <<>>
    /\ InitHeat

InitSP ==
    /\ fn = "sample_path"
    /\ path_args \in { <<a>> : a \in PathInputs }
    /\ nested = FALSE /\ residuals = <<>> /\ shape = <<>> /\ n_lags = 0
    /\ percentile_empty = "nan"
    /\ decay_coefficients = <<>> /\ tmin = <<>> /\ tmax = <<>>
    /\ probabilities = <<>> /\ usetex = FALSE /\ events_labels = <<>>

Init ==
    InitLocals /\ (InitQQ \/ InitCorr \/ InitKern \/ InitTP \/ InitDD \/ InitSP)

Next ==
    \/ QQEntry
    \/ QQCell
    \/ CorrEntry
    \/ CorrCell
    \/ KernEntry
    \/ KernCell
    \/ TPEntry
    \/ TPCell
    \/ DDEntry
    \/ DDRow
    \/ SamplePath
    \/ Return

Spec == Init /\ [][Next]_vars

---------------------------------------------------------------------------
(* Properties of the inputs that the statements below speak about. *)

Finished == pc \in {"return", "raised"}

AllPairs ==
    { <<m, e>> : m \in 0..(Len(residuals) - 1), e \in 0..(MaxDim - 1) }
Present == { p \in AllPairs : HasRes(p[1], p[2]) }

SomeEmpty == \E p \in Present : Len(Res(p[1], p[2])) = 0
SameDims == \A m \in 1..Len(residuals) : Len(residuals[m]) = Len(residuals[1])
WellFormed == ~SomeEmpty /\ SameDims

(* n_lags is negative or exceeds the truncated length minus one of a pair *)
LagOutOfRange ==
    \/ n_lags < 0
    \/ \E p \in Present, q \in Present :
          /\ p[1] = q[1]
          /\ n_lags > MaxLength(Res(p[1], p[2]), Res(q[1], q[2])) - 1

SomeDecayNotPositive ==
    \E t \in DOMAIN decay_coefficients : decay_coefficients[t] <= 0

(* a >= b on floats: every comparison with NaN is false. *)
FGeq(a, b) ==
    /\ a.k # "nan" /\ b.k # "nan"
    /\ \/ a.k = "inf"
       \/ b.k = "-inf"
       \/ a.k = "num" /\ b.k = "num" /\ a.v >= b.v

CurveSet == { curves[k] : k \in 1..Len(curves) }
CallSet == { ccf_calls[k] : k \in 1..Len(ccf_calls) }

---------------------------------------------------------------------------
(* C1: for every n_lags >= 0 every correlation sequence that correlogram  *)
(* plots has exactly n_lags + 1 entries, whatever the lengths of the two  *)
(* residual sequences.                                                    *)
C1_LengthIsLagsPlusOne ==
    (fn = "correlogram" /\ n_lags >= 0 /\ WellFormed)
        => \A c \in CurveSet : c.len = n_lags + 1

(* C2: when n_lags is negative or exceeds the truncated length minus one  *)
(* of some pair, correlogram fails with InvalidInputError and plots no    *)
(* shortened or empty correlation sequence.                               *)
C2_LagOutOfRangeRejected ==
    (fn = "correlogram" /\ WellFormed /\ LagOutOfRange)
        => /\ curves = <<>>
           /\ Finished => err = "InvalidInputError"

(* C3: when a decay coefficient is zero or negative, kernels_exp fails    *)
(* with InvalidInputError and builds no time grid and no decay curve.     *)
C3_NonPositiveDecayRejected ==
    (fn = "kernels_exp" /\ SomeDecayNotPositive)
        => /\ tt = <<>>
           /\ curves = <<>>
           /\ Finished => err = "InvalidInputError"

(* C4: when the residual sequence of some event type of some model is     *)
(* empty, qq_plot fails with InvalidInputError and plots no empirical     *)
(* quantile curve that holds NaN.  Stated for calls that give a shape.    *)
C4_EmptyResidualRejected ==
    (fn = "qq_plot" /\ shape # <<>> /\ SameDims /\ SomeEmpty)
        => /\ \A c \in CurveSet : ~c.nan
           /\ Finished => err = "InvalidInputError"

(* C5: when two models have a different number of event types, qq_plot    *)
(* and correlogram fail with ShapeMismatchError before any curve of any   *)
(* event type or model is computed.  Stated for the calls of qq_plot     *)
(* that give a shape.                                                     *)
C5_ShapeMismatchDetectedFirst ==
    (/\ fn \in {"qq_plot", "correlogram"}
     /\ fn = "qq_plot" => shape # <<>>
     /\ nested /\ ~SameDims /\ ~SomeEmpty)
        => /\ curves = <<>>
           /\ ccf_calls = <<>>
           /\ Finished => err = "ShapeMismatchError"

(* C6: no call of qq_plot, correlogram or kernels_exp raises an error     *)
(* after a curve of an earlier event type, pair or model has been         *)
(* computed and plotted: an error leaves no partial result.  Stated for   *)
(* residuals without an empty sequence, where the outcome does not depend *)
(* on the numpy version.                                                  *)
C6_NoErrorAfterCurve ==
    (/\ fn \in {"qq_plot", "correlogram", "kernels_exp"}
     /\ err # "none" /\ ~SomeEmpty)
        => curves = <<>>

(* C7: the two arguments that correlogram hands to the cross-correlation  *)
(* routine for the pair (i, j) of model m are the first max_length        *)
(* samples of residuals[m][i] and of residuals[m][j], with max_length the *)
(* smaller of the two lengths; for i = j both are the whole sequence.     *)
C7_CcfArgumentsArePrefixes ==
    \A c \in CallSet :
        LET a == Res(c.m, c.i)
            b == Res(c.m, c.j)
            shorter == IF Len(a) < Len(b) THEN Len(a) ELSE Len(b)
        IN /\ Len(c.x) = shorter
           /\ Len(c.y) = shorter
           /\ \A k \in 1..shorter : c.x[k] = a[k] /\ c.y[k] = b[k]
           /\ c.i = c.j => (c.x = a /\ c.y = a)

(* A call for a pair of sequences of different lengths in the second      *)
(* model, after a call for a pair i = j.                                  *)
C7_Witness ==
    /\ fn = "correlogram"
    /\ \E c \in CallSet :
          /\ c.i # c.j /\ c.m = 1
          /\ Len(Res(c.m, c.i)) > Len(Res(c.m, c.j))
          /\ Len(c.x) >= 1
    /\ \E c \in CallSet : c.i = c.j /\ Len(c.x) = MaxLen

(* C8: when the resolved bounds satisfy t_min >= t_max, kernels_exp fails *)
(* with InvalidInputError and builds no time grid, so never a constant or *)
(* decreasing one.                                                        *)
C8_EmptyTimeRangeRejected ==
    (fn = "kernels_exp" /\ ~SomeDecayNotPositive /\ FGeq(TMin, TMax))
        => /\ tt = <<>>
           /\ Finished => err = "InvalidInputError"

(* C9: the subplot grid of qq_plot has shape[0] columns and shape[1]      *)
(* rows.                                                                  *)
C9_ShapeIsColumnsThenRows ==
    (fn = "qq_plot" /\ fig_array # <<>>)
        => /\ fig_array[1].ncols = shape[1]
           /\ fig_array[1].nrows = shape[2]

(* C10: in qq_plot with a grid shape (v_size, h_size) the cell (i, j)     *)
(* shows event type n = j + h_size * i:                                   *)
(* every curve is in the cell of its event type, and when the call        *)
(* returns every event type below min(dim, v_size * h_size) is shown in   *)
(* exactly one cell, the cells with n >= dim are empty, the event types   *)
(* from v_size * h_size on are shown nowhere, and well-formed residuals   *)
(* raise no error, whatever the grid shape.                               *)
CellsShowing(n) == { <<c.i, c.j>> : c \in { d \in CurveSet : d.n = n } }

C10_CellShowsItsEventType ==
    fn = "qq_plot" =>
        /\ \A c \in CurveSet :
              /\ c.i \in 0..(v_size - 1) /\ c.j \in 0..(h_size - 1)
              /\ c.n = c.j + h_size * c.i
              /\ c.n < dim
        /\ pc = "return" =>
              /\ \A n \in 0..(dim - 1) :
                    IF n < v_size * h_size
                    THEN Cardinality(CellsShowing(n)) = 1
                    ELSE CellsShowing(n) = {}
              /\ \A ci \in 0..(v_size - 1), cj \in 0..(h_size - 1) :
                    cj + h_size * ci >= dim
                        => ~\E c \in CurveSet : c.i = ci /\ c.j = cj
        /\ (pc = "raised" /\ shape # <<>>) => ~WellFormed

(* Three event types on a 2 x 2 grid: the call has returned, the second   *)
(* row shows event type 2 in its first cell and nothing in its second.    *)
C10_Witness ==
    /\ fn = "qq_plot" /\ pc = "return"
    /\ v_size = 2 /\ h_size = 2 /\ dim = 3
    /\ \E c \in CurveSet : c.i = 1 /\ c.j = 0 /\ c.n = 2
    /\ ~\E c \in CurveSet : c.i = 1 /\ c.j = 1

(* C11: without usetex the annotation of a cell of transition_probabilities *)
(* and of discrete_distribution is the same function of its probability p:  *)
(* '0%' exactly when p = 0, '<1%' exactly when p < 0.01 and p # 0, and      *)
(* otherwise the integer floor(100 * p) followed by '%'; that integer lies  *)
(* in 1..100 and is 100 only for p = 1.                                     *)
C11_AnnotationOfProbability ==
    (fn \in {"transition_probabilities", "discrete_distribution"} /\ ~usetex)
        => \A t \in DOMAIN annot :
              LET p == probabilities[t]
                  a == annot[t]
                  pct == (100 * p) \div PUnit
                  small == p # 0 /\ 100 * p < PUnit
              IN /\ (a = "0%") <=> (p = 0)
                 /\ (a = "<1%") <=> small
                 /\ (p # 0 /\ ~small) =>
                       /\ a = ToString(pct) \o "%"
                       /\ pct \in 1..100
                       /\ (pct = 100) <=> (p = PUnit)
                 /\ TransitionAnnotation(p, FALSE)
                       = DistributionAnnotation(p, FALSE)

(* transition_probabilities has returned after annotating a probability     *)
(* below 0.01, the probability 1 and one in between.                        *)
C11_Witness ==
    /\ fn = "transition_probabilities" /\ ~usetex /\ pc = "return"
    /\ \E t \in DOMAIN annot : annot[t] = "<1%" /\ probabilities[t] > 0
    /\ \E t \in DOMAIN annot : annot[t] = "100%" /\ probabilities[t] = PUnit
    /\ \E t \in DOMAIN annot : annot[t] = "33%"

====
